---- MODULE Spec2Model ----
(***************************************************************************)
(* Model of src/app.py: the Mergington High School activities API.         *)
(*                                                                         *)
(* Text that the program takes apart (the Authorization header, the        *)
(* decoded credentials, usernames and passwords) is a sequence of code     *)
(* points; bytes are numbers 0..255.  Text that the program only compares  *)
(* or stores (activity names, emails, messages) is a TLA+ string.          *)
(***************************************************************************)
EXTENDS Naturals, Sequences, FiniteSets, TLC

VARIABLES
    activities,          \* app.py:29   the in-memory activity database
    logged_in_teachers,  \* app.py:94   the in-memory session store
    request,             \* the last request handled atomically
    response,            \* its response
    pc,                  \* per worker thread: position inside a handler
    local,               \* per worker thread: the handler's arguments
    result               \* per worker thread: the response it produced

vars == <<activities, logged_in_teachers, request, response, pc, local, result>>

----------------------------------------------------------------------------
(* Python and library primitives used by app.py                            *)

\* str.lower() on the code points a header can hold (latin-1)
lower(s) ==
    [i \in 1..Len(s) |->
        IF (s[i] >= 65 /\ s[i] <= 90) \/ (s[i] >= 192 /\ s[i] <= 222 /\ s[i] # 215)
        THEN s[i] + 32 ELSE s[i]]

\* position of the first occurrence of c in s, 0 when there is none
find(s, c) ==
    IF \E i \in 1..Len(s) : s[i] = c
    THEN CHOOSE i \in 1..Len(s) : s[i] = c /\ \A j \in 1..(i - 1) : s[j] # c
    ELSE 0

\* str.partition(sep) for a one-character separator
partition(s, c) ==
    LET i == find(s, c) IN
    IF i = 0
    THEN [head |-> s, sep |-> <<>>, tail |-> <<>>]
    ELSE [head |-> SubSeq(s, 1, i - 1), sep |-> <<c>>, tail |-> SubSeq(s, i + 1, Len(s))]

\* the value of a character of the base64 alphabet, 64 for any other
b64value(c) ==
    IF c >= 65 /\ c <= 90 THEN c - 65
    ELSE IF c >= 97 /\ c <= 122 THEN c - 71
    ELSE IF c >= 48 /\ c <= 57 THEN c + 4
    ELSE IF c = 43 THEN 62
    ELSE IF c = 47 THEN 63
    ELSE 64

\* binascii.a2b_base64 in its lenient mode: characters outside the alphabet
\* are skipped, a pad that completes a quad ends the input, and a quad left
\* open at the end is "Incorrect padding"
RECURSIVE a2b_base64(_, _, _, _, _, _)
a2b_base64(s, i, quad_pos, leftchar, pads, out) ==
    IF i > Len(s)
    THEN IF quad_pos # 0 THEN [ok |-> FALSE, bytes |-> <<>>] ELSE [ok |-> TRUE, bytes |-> out]
    ELSE IF s[i] = 61
    THEN IF quad_pos >= 2
         THEN IF quad_pos + pads + 1 >= 4
              THEN [ok |-> TRUE, bytes |-> out]
              ELSE a2b_base64(s, i + 1, quad_pos, leftchar, pads + 1, out)
         ELSE a2b_base64(s, i + 1, quad_pos, leftchar, pads, out)
    ELSE LET v == b64value(s[i]) IN
         IF v >= 64 THEN a2b_base64(s, i + 1, quad_pos, leftchar, pads, out)
         ELSE IF quad_pos = 0 THEN a2b_base64(s, i + 1, 1, v, 0, out)
         ELSE IF quad_pos = 1
              THEN a2b_base64(s, i + 1, 2, v % 16, 0, Append(out, (leftchar * 4) + (v \div 16)))
         ELSE IF quad_pos = 2
              THEN a2b_base64(s, i + 1, 3, v % 4, 0, Append(out, (leftchar * 16) + (v \div 4)))
         ELSE a2b_base64(s, i + 1, 0, 0, 0, Append(out, (leftchar * 64) + v))

\* base64.b64decode(str): a str with a non-ASCII character is a ValueError
b64decode(s) ==
    IF \E i \in 1..Len(s) : s[i] > 127
    THEN [ok |-> FALSE, bytes |-> <<>>]
    ELSE a2b_base64(s, 1, 0, 0, 0, <<>>)

IsCont(b) == b >= 128 /\ b <= 191

\* bytes.decode() (strict UTF-8): shortest form only, no surrogates
RECURSIVE utf8_decode(_, _, _)
utf8_decode(b, i, out) ==
    LET n == Len(b)
        bad == [ok |-> FALSE, text |-> <<>>]
        c1 == IF i + 1 <= n THEN b[i + 1] ELSE 0
        c2 == IF i + 2 <= n THEN b[i + 2] ELSE 0
        c3 == IF i + 3 <= n THEN b[i + 3] ELSE 0
    IN
    IF i > n THEN [ok |-> TRUE, text |-> out]
    ELSE IF b[i] < 128 THEN utf8_decode(b, i + 1, Append(out, b[i]))
    ELSE IF b[i] >= 194 /\ b[i] <= 223
    THEN IF IsCont(c1)
         THEN utf8_decode(b, i + 2, Append(out, ((b[i] - 192) * 64) + (c1 - 128)))
         ELSE bad
    ELSE IF b[i] >= 224 /\ b[i] <= 239
    THEN IF /\ IsCont(c1) /\ IsCont(c2)
            /\ (b[i] = 224 => c1 >= 160)
            /\ (b[i] = 237 => c1 <= 159)
         THEN utf8_decode(b, i + 3,
                  Append(out, ((b[i] - 224) * 4096) + ((c1 - 128) * 64) + (c2 - 128)))
         ELSE bad
    ELSE IF b[i] >= 240 /\ b[i] <= 244
    THEN IF /\ IsCont(c1) /\ IsCont(c2) /\ IsCont(c3)
            /\ (b[i] = 240 => c1 >= 144)
            /\ (b[i] = 244 => c1 <= 143)
         THEN utf8_decode(b, i + 4,
                  Append(out, ((b[i] - 240) * 262144) + ((c1 - 128) * 4096)
                              + ((c2 - 128) * 64) + (c3 - 128)))
         ELSE bad
    ELSE bad

\* secrets.compare_digest on two str: a str with a non-ASCII character is a
\* TypeError, otherwise the answer is equality
compare_digest(a, b) ==
    IF (\E i \in 1..Len(a) : a[i] > 127) \/ (\E i \in 1..Len(b) : b[i] > 127)
    THEN "TypeError"
    ELSE IF a = b THEN "True" ELSE "False"

----------------------------------------------------------------------------
(* What a client does to build a Basic header: str.encode() and            *)
(* base64.b64encode                                                        *)

RECURSIVE utf8_encode(_)
utf8_encode(s) ==
    IF s = <<>> THEN <<>>
    ELSE LET c == Head(s) IN
         (IF c < 128 THEN <<c>>
          ELSE IF c < 2048 THEN <<192 + (c \div 64), 128 + (c % 64)>>
          ELSE <<224 + (c \div 4096), 128 + ((c \div 64) % 64), 128 + (c % 64)>>)
         \o utf8_encode(Tail(s))

b64char(v) ==
    IF v < 26 THEN v + 65
    ELSE IF v < 52 THEN v + 71
    ELSE IF v < 62 THEN v - 4
    ELSE IF v = 62 THEN 43 ELSE 47

RECURSIVE b64encode(_)
b64encode(b) ==
    IF b = <<>> THEN <<>>
    ELSE IF Len(b) = 1
    THEN <<b64char(b[1] \div 4), b64char((b[1] % 4) * 16), 61, 61>>
    ELSE IF Len(b) = 2
    THEN <<b64char(b[1] \div 4), b64char(((b[1] % 4) * 16) + (b[2] \div 16)),
           b64char((b[2] % 16) * 4), 61>>
    ELSE <<b64char(b[1] \div 4), b64char(((b[1] % 4) * 16) + (b[2] \div 16)),
           b64char(((b[2] % 16) * 4) + (b[3] \div 64)), b64char(b[3] % 64)>>
         \o b64encode(SubSeq(b, 4, Len(b)))

----------------------------------------------------------------------------
(* The program's data                                                      *)

\* app.py:29-84
InitialActivities ==
    [n \in {"Chess Club", "Programming Class", "Gym Class", "Soccer Team",
            "Basketball Team", "Art Club", "Drama Club", "Math Club", "Debate Team"} |->
        CASE n = "Chess Club" ->
               [description |-> "Learn strategies and compete in chess tournaments",
                schedule |-> "Fridays, 3:30 PM - 5:00 PM",
                max_participants |-> 12,
                participants |-> <<"michael@mergington.edu", "daniel@mergington.edu">>]
          [] n = "Programming Class" ->
               [description |-> "Learn programming fundamentals and build software projects",
                schedule |-> "Tuesdays and Thursdays, 3:30 PM - 4:30 PM",
                max_participants |-> 20,
                participants |-> <<"emma@mergington.edu", "sophia@mergington.edu">>]
          [] n = "Gym Class" ->
               [description |-> "Physical education and sports activities",
                schedule |-> "Mondays, Wednesdays, Fridays, 2:00 PM - 3:00 PM",
                max_participants |-> 30,
                participants |-> <<"john@mergington.edu", "olivia@mergington.edu">>]
          [] n = "Soccer Team" ->
               [description |-> "Join the school soccer team and compete in matches",
                schedule |-> "Tuesdays and Thursdays, 4:00 PM - 5:30 PM",
                max_participants |-> 22,
                participants |-> <<"liam@mergington.edu", "noah@mergington.edu">>]
          [] n = "Basketball Team" ->
               [description |-> "Practice and play basketball with the school team",
                schedule |-> "Wednesdays and Fridays, 3:30 PM - 5:00 PM",
                max_participants |-> 15,
                participants |-> <<"ava@mergington.edu", "mia@mergington.edu">>]
          [] n = "Art Club" ->
               [description |-> "Explore your creativity through painting and drawing",
                schedule |-> "Thursdays, 3:30 PM - 5:00 PM",
                max_participants |-> 15,
                participants |-> <<"amelia@mergington.edu", "harper@mergington.edu">>]
          [] n = "Drama Club" ->
               [description |-> "Act, direct, and produce plays and performances",
                schedule |-> "Mondays and Wednesdays, 4:00 PM - 5:30 PM",
                max_participants |-> 20,
                participants |-> <<"ella@mergington.edu", "scarlett@mergington.edu">>]
          [] n = "Math Club" ->
               [description |-> "Solve challenging problems and participate in math competitions",
                schedule |-> "Tuesdays, 3:30 PM - 4:30 PM",
                max_participants |-> 10,
                participants |-> <<"james@mergington.edu", "benjamin@mergington.edu">>]
          [] n = "Debate Team" ->
               [description |-> "Develop public speaking and argumentation skills",
                schedule |-> "Fridays, 4:00 PM - 5:30 PM",
                max_participants |-> 12,
                participants |-> <<"charlotte@mergington.edu", "henry@mergington.edu">>]]

\* Text used in credentials: "amy", "bob", "eve", "pw1", "p:2", "bad", "p<a-umlaut>"
amy == <<97, 109, 121>>
bob == <<98, 111, 98>>
eve == <<101, 118, 101>>
pw1 == <<112, 119, 49>>
p_2 == <<112, 58, 50>>
bad == <<98, 97, 100>>
p_uml == <<112, 228>>

\* the content of teachers.json: the "teachers" array
TeachersFile ==
    << [username |-> amy, password |-> pw1],
       [username |-> bob, password |-> p_2] >>

\* app.py:87-91: read on every call, never cached
load_teachers == TeachersFile

\* the process-global state as one value
Globals == [activities |-> activities, logged_in_teachers |-> logged_in_teachers]

----------------------------------------------------------------------------
(* Responses and exceptions                                                *)

NoHeaders == {}

\* fastapi.HTTPException as the client receives it
HTTPException(status_code, detail, headers) ==
    [status_code |-> status_code, content |-> [detail |-> detail], headers |-> headers]

\* an exception no handler catches: the server answers 500
Unhandled(exc) ==
    [status_code |-> 500, content |-> [detail |-> exc], headers |-> NoHeaders]

\* a returned dict, sent as 200 JSON
Returned(message) ==
    [status_code |-> 200, content |-> [message |-> message], headers |-> NoHeaders]

\* no response (yet)
NoResponse == [status_code |-> 0, content |-> [detail |-> ""], headers |-> NoHeaders]

\* how a function call ends: it raises, or it returns a value
Raise(exc) == [raised |-> TRUE, value |-> <<>>, exc |-> exc]
Return(value) == [raised |-> FALSE, value |-> value, exc |-> NoResponse]

\* request.headers.get("authorization"): None, or the header's text
None == [present |-> FALSE, text |-> <<>>]
Header(text) == [present |-> TRUE, text |-> text]

----------------------------------------------------------------------------
(* Authentication                                                          *)

basic == <<98, 97, 115, 105, 99>>

Challenge == {"WWW-Authenticate: Basic"}

\* fastapi.security.HTTPBasic, the dependency of login and logout
\* (app.py:21): it answers 401 itself unless the header is "Basic" followed
\* by the base64 of ASCII text with a colon in it
HTTPBasic(authorization) ==
    LET p == partition(authorization.text, 32) IN
    IF ~authorization.present \/ authorization.text = <<>> \/ lower(p.head) # basic
    THEN Raise(HTTPException(401, "Not authenticated", Challenge))
    ELSE LET raw == b64decode(p.tail)
             d == partition(raw.bytes, 58)
         IN
         IF ~raw.ok \/ (\E i \in 1..Len(raw.bytes) : raw.bytes[i] > 127) \/ d.sep = <<>>
         THEN Raise(HTTPException(401, "Invalid authentication credentials", Challenge))
         ELSE Return([username |-> d.head, password |-> d.tail])

\* app.py:98-106: the loop over the teachers, from the i-th on
RECURSIVE authenticate_teacher_from(_, _, _, _)
authenticate_teacher_from(g, credentials, teachers, i) ==
    IF i > Len(teachers)
    THEN [g |-> g, out |-> Raise(HTTPException(401, "Invalid credentials", Challenge))]
    ELSE IF credentials.username = teachers[i].username
    THEN LET c == compare_digest(credentials.password, teachers[i].password) IN
         IF c = "TypeError" THEN [g |-> g, out |-> Raise(Unhandled("TypeError"))]
         ELSE IF c = "True"
         THEN [g |-> [g EXCEPT !.logged_in_teachers = @ \cup {credentials.username}],
               out |-> Return(credentials.username)]
         ELSE authenticate_teacher_from(g, credentials, teachers, i + 1)
    ELSE authenticate_teacher_from(g, credentials, teachers, i + 1)

\* app.py:96-106
authenticate_teacher(g, credentials) ==
    authenticate_teacher_from(g, credentials, load_teachers, 1)

\* app.py:122-125: the loop over the teachers, from the i-th on
RECURSIVE require_teacher_from(_, _, _, _)
require_teacher_from(username, password, teachers, i) ==
    IF i > Len(teachers)
    THEN Raise(HTTPException(401, "Invalid credentials", NoHeaders))
    ELSE IF username = teachers[i].username
    THEN LET c == compare_digest(password, teachers[i].password) IN
         IF c = "TypeError" THEN Raise(Unhandled("TypeError"))
         ELSE IF c = "True" THEN Return(username)
         ELSE require_teacher_from(username, password, teachers, i + 1)
    ELSE require_teacher_from(username, password, teachers, i + 1)

\* require_teacher as it would be if the session store gated it: the teacher
\* must also have logged in
require_teacher_logged_in(g, authorization) ==
    LET p == partition(authorization.text, 32)
        raw == b64decode(p.tail)
        decoded == IF raw.ok THEN utf8_decode(raw.bytes, 1, <<>>)
                   ELSE [ok |-> FALSE, text |-> <<>>]
        d == partition(decoded.text, 58)
        found == require_teacher_from(d.head, d.tail, load_teachers, 1)
    IN
    IF ~authorization.present \/ authorization.text = <<>>
    THEN Raise(HTTPException(401, "Not authenticated", NoHeaders))
    ELSE IF lower(p.head) # basic
    THEN Raise(HTTPException(401, "Invalid auth scheme", NoHeaders))
    ELSE IF ~decoded.ok
    THEN Raise(HTTPException(401, "Invalid auth header", NoHeaders))
    ELSE IF ~found.raised /\ found.value \notin g.logged_in_teachers
    THEN Raise(HTTPException(401, "Not logged in", NoHeaders))
    ELSE found

\* app.py:108-125
require_teacher(g, authorization) ==
    IF ~authorization.present \/ authorization.text = <<>>
    THEN Raise(HTTPException(401, "Not authenticated", NoHeaders))
    ELSE LET p == partition(authorization.text, 32) IN
         IF lower(p.head) # basic
         THEN Raise(HTTPException(401, "Invalid auth scheme", NoHeaders))
         ELSE LET raw == b64decode(p.tail)
                  decoded == IF raw.ok THEN utf8_decode(raw.bytes, 1, <<>>)
                             ELSE [ok |-> FALSE, text |-> <<>>]
                  d == partition(decoded.text, 58)
              IN
              IF ~decoded.ok
              THEN Raise(HTTPException(401, "Invalid auth header", NoHeaders))
              ELSE require_teacher_from(d.head, d.tail, load_teachers, 1)

----------------------------------------------------------------------------
(* Handlers: from the global state and the request to the new global       *)
(* state and the response                                                  *)

\* x in list
Contains(list, x) == \E i \in 1..Len(list) : list[i] = x

\* list.remove(x): the first x goes, ValueError when there is none
list_remove(list, x) ==
    IF ~Contains(list, x) THEN Raise(Unhandled("ValueError"))
    ELSE LET i == CHOOSE k \in 1..Len(list) :
                      list[k] = x /\ \A j \in 1..(k - 1) : list[j] # x
         IN  Return(SubSeq(list, 1, i - 1) \o SubSeq(list, i + 1, Len(list)))

\* app.py:129-130
root(g) ==
    [g |-> g,
     response |-> [status_code |-> 307, content |-> [detail |-> ""],
                   headers |-> {"location: /static/index.html"}]]

\* app.py:134-135
get_activities(g) ==
    [g |-> g,
     response |-> [status_code |-> 200, content |-> g.activities, headers |-> NoHeaders]]

\* signup_checks as it would be with max_participants enforced
signup_checks_capacity(g, activity_name, email, authorization) ==
    LET teacher == require_teacher(g, authorization) IN
    IF teacher.raised THEN teacher
    ELSE IF activity_name \notin DOMAIN g.activities
    THEN Raise(HTTPException(404, "Activity not found", NoHeaders))
    ELSE IF Contains(g.activities[activity_name].participants, email)
    THEN Raise(HTTPException(400, "Student is already signed up", NoHeaders))
    ELSE IF Len(g.activities[activity_name].participants)
                >= g.activities[activity_name].max_participants
    THEN Raise(HTTPException(400, "Activity is full", NoHeaders))
    ELSE teacher

\* signup_checks without its duplicate check
signup_checks_no_duplicate_check(g, activity_name, email, authorization) ==
    LET teacher == require_teacher(g, authorization) IN
    IF teacher.raised THEN teacher
    ELSE IF activity_name \notin DOMAIN g.activities
    THEN Raise(HTTPException(404, "Activity not found", NoHeaders))
    ELSE teacher

\* app.py:142-147: up to the duplicate check
signup_checks(g, activity_name, email, authorization) ==
    LET teacher == require_teacher(g, authorization) IN
    IF teacher.raised THEN teacher
    ELSE IF activity_name \notin DOMAIN g.activities
    THEN Raise(HTTPException(404, "Activity not found", NoHeaders))
    ELSE IF Contains(g.activities[activity_name].participants, email)
    THEN Raise(HTTPException(400, "Student is already signed up", NoHeaders))
    ELSE teacher

\* signup_append under a lock with the duplicate check: nothing is appended
\* when the email is in the list by now
signup_append_if_absent(g, activity_name, email, teacher) ==
    IF Contains(g.activities[activity_name].participants, email)
    THEN [g |-> g,
          response |-> HTTPException(400, "Student is already signed up", NoHeaders)]
    ELSE [g |-> [g EXCEPT !.activities[activity_name].participants = Append(@, email)],
          response |-> Returned([fmt |-> "Teacher {teacher} signed up {email} for {activity_name}",
                                 teacher |-> teacher, email |-> email,
                                 activity_name |-> activity_name])]

\* signup_append as it would be if the activities shared one participants list
signup_append_to_all(g, activity_name, email, teacher) ==
    [g |-> [g EXCEPT !.activities =
                [n \in DOMAIN @ |-> [@[n] EXCEPT !.participants = Append(@, email)]]],
     response |-> Returned([fmt |-> "Teacher {teacher} signed up {email} for {activity_name}",
                            teacher |-> teacher, email |-> email,
                            activity_name |-> activity_name])]

\* app.py:148-149
signup_append(g, activity_name, email, teacher) ==
    [g |-> [g EXCEPT !.activities[activity_name].participants = Append(@, email)],
     response |-> Returned([fmt |-> "Teacher {teacher} signed up {email} for {activity_name}",
                            teacher |-> teacher, email |-> email,
                            activity_name |-> activity_name])]

\* app.py:140-149
signup_for_activity(g, activity_name, email, authorization) ==
    LET c == signup_checks(g, activity_name, email, authorization) IN
    IF c.raised THEN [g |-> g, response |-> c.exc]
    ELSE signup_append(g, activity_name, email, c.value)

\* unregister_checks as it would be with the lookup before the credentials
unregister_checks_lookup_first(g, activity_name, email, authorization) ==
    LET teacher == require_teacher(g, authorization) IN
    IF activity_name \notin DOMAIN g.activities
    THEN Raise(HTTPException(404, "Activity not found", NoHeaders))
    ELSE IF teacher.raised THEN teacher
    ELSE IF ~Contains(g.activities[activity_name].participants, email)
    THEN Raise(HTTPException(400, "Student is not signed up for this activity", NoHeaders))
    ELSE teacher

\* app.py:156-161: up to the membership check
unregister_checks(g, activity_name, email, authorization) ==
    LET teacher == require_teacher(g, authorization) IN
    IF teacher.raised THEN teacher
    ELSE IF activity_name \notin DOMAIN g.activities
    THEN Raise(HTTPException(404, "Activity not found", NoHeaders))
    ELSE IF ~Contains(g.activities[activity_name].participants, email)
    THEN Raise(HTTPException(400, "Student is not signed up for this activity", NoHeaders))
    ELSE teacher

\* unregister_remove as it would be if it removed from a copy of the list
unregister_remove_from_copy(g, activity_name, email, teacher) ==
    LET r == list_remove(g.activities[activity_name].participants, email) IN
    IF r.raised THEN [g |-> g, response |-> r.exc]
    ELSE [g |-> g,
          response |-> Returned([fmt |-> "Teacher {teacher} unregistered {email} from {activity_name}",
                                 teacher |-> teacher, email |-> email,
                                 activity_name |-> activity_name])]

\* app.py:162-163
unregister_remove(g, activity_name, email, teacher) ==
    LET r == list_remove(g.activities[activity_name].participants, email) IN
    IF r.raised THEN [g |-> g, response |-> r.exc]
    ELSE [g |-> [g EXCEPT !.activities[activity_name].participants = r.value],
          response |-> Returned([fmt |-> "Teacher {teacher} unregistered {email} from {activity_name}",
                                 teacher |-> teacher, email |-> email,
                                 activity_name |-> activity_name])]

\* app.py:154-163
unregister_from_activity(g, activity_name, email, authorization) ==
    LET c == unregister_checks(g, activity_name, email, authorization) IN
    IF c.raised THEN [g |-> g, response |-> c.exc]
    ELSE unregister_remove(g, activity_name, email, c.value)

\* app.py:166-169, with its dependency
login(g, authorization) ==
    LET credentials == HTTPBasic(authorization) IN
    IF credentials.raised THEN [g |-> g, response |-> credentials.exc]
    ELSE LET a == authenticate_teacher(g, credentials.value) IN
         IF a.out.raised THEN [g |-> a.g, response |-> a.out.exc]
         ELSE [g |-> a.g,
               response |-> Returned([fmt |-> "Logged in as {username}",
                                      username |-> a.out.value])]

\* logout as it would be if it validated the password as login does
logout_checks_password(g, authorization) ==
    LET credentials == HTTPBasic(authorization) IN
    IF credentials.raised THEN [g |-> g, response |-> credentials.exc]
    ELSE LET a == authenticate_teacher(g, credentials.value)
             username == credentials.value.username
         IN
         IF a.out.raised THEN [g |-> g, response |-> a.out.exc]
         ELSE IF username \in g.logged_in_teachers
         THEN [g |-> [g EXCEPT !.logged_in_teachers = @ \ {username}],
               response |-> Returned([fmt |-> "Logged out {username}",
                                      username |-> username])]
         ELSE [g |-> g,
               response |-> [status_code |-> 400,
                             content |-> [message |-> [fmt |-> "Not logged in"]],
                             headers |-> NoHeaders]]

\* app.py:172-178, with its dependency
logout(g, authorization) ==
    LET credentials == HTTPBasic(authorization) IN
    IF credentials.raised THEN [g |-> g, response |-> credentials.exc]
    ELSE LET username == credentials.value.username IN
         IF username \in g.logged_in_teachers
         THEN [g |-> [g EXCEPT !.logged_in_teachers = @ \ {username}],
               response |-> Returned([fmt |-> "Logged out {username}",
                                      username |-> username])]
         ELSE [g |-> g,
               response |-> [status_code |-> 400,
                             content |-> [message |-> [fmt |-> "Not logged in"]],
                             headers |-> NoHeaders]]

----------------------------------------------------------------------------
(* The requests the clients send                                           *)

\* "Authorization: <scheme> <base64 of username:password>"
BasicHeader(scheme, username, password) ==
    Header(scheme \o <<32>> \o b64encode(utf8_encode(username \o <<58>> \o password)))

Basic == <<66, 97, 115, 105, 99>>
BASIC == <<66, 65, 83, 73, 67>>
Bearer == <<66, 101, 97, 114, 101, 114>>

AmyHeader == BasicHeader(Basic, amy, pw1)          \* a teacher
BobHeader == BasicHeader(BASIC, bob, p_2)          \* a teacher, scheme in capitals
WrongPasswordHeader == BasicHeader(Basic, amy, bad)
UnknownUserHeader == BasicHeader(Basic, eve, pw1)
NonAsciiPasswordHeader == BasicHeader(Basic, amy, p_uml)
BearerHeader == BasicHeader(Bearer, amy, pw1)      \* not the Basic scheme
EmptyHeader == Header(<<>>)
NoParamHeader == Header(Basic)
PaddingHeader == Header(Basic \o <<32, 89, 87, 49>>)            \* "Basic YW1"
NotUtf8Header == Header(Basic \o <<32, 47, 119, 61, 61>>)       \* "Basic /w==": byte 255
NoColonHeader == Header(Basic \o <<32>> \o b64encode(amy))      \* "amy", no colon

Headers ==
    {None, EmptyHeader, AmyHeader, BobHeader, WrongPasswordHeader, UnknownUserHeader,
     NonAsciiPasswordHeader, BearerHeader, NoParamHeader, PaddingHeader, NotUtf8Header,
     NoColonHeader}

\* the path parameter: an activity of the registry and one that is not
ActivityNames == {"Chess Club", "Nonexistent Club"}

\* the query parameter: a participant of Chess Club and a new student
Emails == {"michael@mergington.edu", "isabella@mergington.edu"}

Request(op, authorization, activity_name, email) ==
    [op |-> op, authorization |-> authorization,
     activity_name |-> activity_name, email |-> email]

----------------------------------------------------------------------------
(* Requests handled one at a time                                          *)

\* the worker threads that run handlers in parallel
NThreads == 2
Threads == 1..NThreads

Init ==
    /\ activities = InitialActivities
    /\ logged_in_teachers = {}
    /\ request = Request("start", None, "", "")
    /\ response = NoResponse
    /\ pc = [t \in Threads |-> "idle"]
    /\ local = [t \in Threads |-> [op |-> "start", authorization |-> None,
                                    activity_name |-> "", email |-> "", teacher |-> <<>>]]
    /\ result = [t \in Threads |-> NoResponse]

\* the handler's outcome becomes the new state
Handled(outcome) ==
    /\ activities' = outcome.g.activities
    /\ logged_in_teachers' = outcome.g.logged_in_teachers
    /\ response' = outcome.response
    /\ UNCHANGED <<pc, local, result>>

\* GET /
Root ==
    /\ request' = Request("root", None, "", "")
    /\ Handled(root(Globals))

\* GET /activities
GetActivities ==
    /\ request' = Request("get_activities", None, "", "")
    /\ Handled(get_activities(Globals))

\* POST /activities/{activity_name}/signup?email=
Signup(authorization, activity_name, email) ==
    /\ request' = Request("signup", authorization, activity_name, email)
    /\ Handled(signup_for_activity(Globals, activity_name, email, authorization))

\* DELETE /activities/{activity_name}/unregister?email=
Unregister(authorization, activity_name, email) ==
    /\ request' = Request("unregister", authorization, activity_name, email)
    /\ Handled(unregister_from_activity(Globals, activity_name, email, authorization))

\* POST /login
Login(authorization) ==
    /\ request' = Request("login", authorization, "", "")
    /\ Handled(login(Globals, authorization))

\* POST /logout
Logout(authorization) ==
    /\ request' = Request("logout", authorization, "", "")
    /\ Handled(logout(Globals, authorization))

Next ==
    \/ Root
    \/ GetActivities
    \/ \E h \in Headers, a \in ActivityNames, e \in Emails : Signup(h, a, e)
    \/ \E h \in Headers, a \in ActivityNames, e \in Emails : Unregister(h, a, e)
    \/ \E h \in Headers : Login(h)
    \/ \E h \in Headers : Logout(h)

Spec == Init /\ [][Next]_vars

----------------------------------------------------------------------------
(* Vocabulary of the properties                                            *)

\* the headers that encode a pair of teachers.json
ValidHeaders == {AmyHeader, BobHeader}

\* the headers HTTPBasic turns into credentials, with the username they claim
CredentialHeaders == {AmyHeader, BobHeader, WrongPasswordHeader, UnknownUserHeader}

ClaimedUsername(h) ==
    CASE h = AmyHeader -> amy
      [] h = BobHeader -> bob
      [] h = WrongPasswordHeader -> amy
      [] h = UnknownUserHeader -> eve

Usernames == {amy, bob, eve}
Passwords == {pw1, p_2, bad, p_uml}

IsRosterRequest(req) == req.op \in {"signup", "unregister"}

Participants(acts, name) == acts[name].participants

\* list with its i-th entry taken out
Without(list, i) == SubSeq(list, 1, i - 1) \o SubSeq(list, i + 1, Len(list))

NoDuplicates(list) == \A i, j \in 1..Len(list) : list[i] = list[j] => i = j

----------------------------------------------------------------------------
(* A teacher enrols a class list, one request at a time                    *)

\* the length of the class list
MaxRoster == 9

Student(k) == "student" \o ToString(k) \o "@mergington.edu"

\* the first student of the class list who is not in the list yet
NextStudent(list) ==
    IF \A k \in 1..MaxRoster : Contains(list, Student(k))
    THEN Student(MaxRoster)
    ELSE Student(CHOOSE k \in 1..MaxRoster :
                     /\ ~Contains(list, Student(k))
                     /\ \A j \in 1..(k - 1) : Contains(list, Student(j)))

RosterHeaders == {AmyHeader, WrongPasswordHeader}
RosterActivityNames == {"Math Club", "Nonexistent Club"}

\* signed up: a participant of Math Club, or the next student of the list
RosterSignupEmails(activity_name) ==
    {"james@mergington.edu",
     IF activity_name \in DOMAIN activities
     THEN NextStudent(Participants(activities, activity_name))
     ELSE Student(1)}

RosterUnregisterEmails == {"james@mergington.edu", Student(1)}

\* the next signup of the enrolment
Enrol(authorization, activity_name) ==
    \E e \in RosterSignupEmails(activity_name) : Signup(authorization, activity_name, e)

NextRoster ==
    \/ \E h \in RosterHeaders, a \in RosterActivityNames : Enrol(h, a)
    \/ \E h \in RosterHeaders, a \in RosterActivityNames, e \in RosterUnregisterEmails :
           Unregister(h, a, e)

SpecRoster == Init /\ [][NextRoster]_vars

----------------------------------------------------------------------------
(* Handlers running in parallel threads: the checks of a handler and its   *)
(* change of the list are two steps, with no lock between them             *)

ThreadHeaders == {AmyHeader}
ThreadActivityNames == {"Chess Club"}

Frame(req, teacher) ==
    [op |-> req.op, authorization |-> req.authorization,
     activity_name |-> req.activity_name, email |-> req.email, teacher |-> teacher]

\* app.py:142-147 in thread t
SignupChecks(t, authorization, activity_name, email) ==
    /\ pc[t] = "idle"
    /\ LET c == signup_checks(Globals, activity_name, email, authorization)
           req == Request("signup", authorization, activity_name, email)
       IN  IF c.raised
           THEN /\ result' = [result EXCEPT ![t] = c.exc]
                /\ local' = [local EXCEPT ![t] = Frame(req, <<>>)]
                /\ pc' = pc
           ELSE /\ result' = [result EXCEPT ![t] = NoResponse]
                /\ local' = [local EXCEPT ![t] = Frame(req, c.value)]
                /\ pc' = [pc EXCEPT ![t] = "append"]
    /\ UNCHANGED <<activities, logged_in_teachers, request, response>>

\* app.py:148-149 in thread t
SignupAppend(t) ==
    /\ pc[t] = "append"
    /\ LET o == signup_append(Globals, local[t].activity_name, local[t].email,
                              local[t].teacher)
       IN  /\ activities' = o.g.activities
           /\ logged_in_teachers' = o.g.logged_in_teachers
           /\ result' = [result EXCEPT ![t] = o.response]
    /\ pc' = [pc EXCEPT ![t] = "idle"]
    /\ UNCHANGED <<local, request, response>>

\* app.py:156-161 in thread t
UnregisterChecks(t, authorization, activity_name, email) ==
    /\ pc[t] = "idle"
    /\ LET c == unregister_checks(Globals, activity_name, email, authorization)
           req == Request("unregister", authorization, activity_name, email)
       IN  IF c.raised
           THEN /\ result' = [result EXCEPT ![t] = c.exc]
                /\ local' = [local EXCEPT ![t] = Frame(req, <<>>)]
                /\ pc' = pc
           ELSE /\ result' = [result EXCEPT ![t] = NoResponse]
                /\ local' = [local EXCEPT ![t] = Frame(req, c.value)]
                /\ pc' = [pc EXCEPT ![t] = "remove"]
    /\ UNCHANGED <<activities, logged_in_teachers, request, response>>

\* app.py:162-163 in thread t
UnregisterRemove(t) ==
    /\ pc[t] = "remove"
    /\ LET o == unregister_remove(Globals, local[t].activity_name, local[t].email,
                                  local[t].teacher)
       IN  /\ activities' = o.g.activities
           /\ logged_in_teachers' = o.g.logged_in_teachers
           /\ result' = [result EXCEPT ![t] = o.response]
    /\ pc' = [pc EXCEPT ![t] = "idle"]
    /\ UNCHANGED <<local, request, response>>

NextThreads ==
    \E t \in Threads :
        \/ \E h \in ThreadHeaders, a \in ThreadActivityNames, e \in Emails :
               SignupChecks(t, h, a, e)
        \/ SignupAppend(t)
        \/ \E h \in ThreadHeaders, a \in ThreadActivityNames, e \in Emails :
               UnregisterChecks(t, h, a, e)
        \/ UnregisterRemove(t)

SpecThreads == Init /\ [][NextThreads]_vars

----------------------------------------------------------------------------
(* C1 *)

\* C1: a signup with valid teacher credentials of an email that is not among
\* the participants of an activity of the registry returns 200 and makes the
\* participants the old list with the email appended once at the end,
\* whatever the length of the list, max_participants or more included.
C1_SignupAppends ==
    [][(/\ request'.op = "signup"
        /\ request'.authorization \in ValidHeaders
        /\ request'.activity_name \in DOMAIN activities
        /\ ~Contains(Participants(activities, request'.activity_name), request'.email))
       => (/\ response'.status_code = 200
           /\ activities' = [activities EXCEPT ![request'.activity_name].participants =
                                 Append(@, request'.email)])]_vars

\* a signup that found Math Club full has succeeded
C1_Witness ==
    /\ request.op = "signup"
    /\ request.activity_name = "Math Club"
    /\ response.status_code = 200
    /\ LET list == Participants(activities, "Math Club") IN
       /\ Len(list) > activities["Math Club"].max_participants
       /\ list[Len(list)] = request.email
       /\ NoDuplicates(list)

----------------------------------------------------------------------------
(* C2 *)

\* C2: a signup with valid teacher credentials of an email that is already a
\* participant of the activity returns 400 and leaves the whole registry as
\* it was.
C2_DuplicateSignupRejected ==
    [][(/\ request'.op = "signup"
        /\ request'.authorization \in ValidHeaders
        /\ request'.activity_name \in DOMAIN activities
        /\ Contains(Participants(activities, request'.activity_name), request'.email))
       => (response'.status_code = 400 /\ activities' = activities)]_vars

C2_Witness ==
    /\ request.op = "signup"
    /\ request.authorization \in ValidHeaders
    /\ request.activity_name = "Chess Club"
    /\ request.email = "michael@mergington.edu"
    /\ response.status_code = 400
    /\ activities = InitialActivities

----------------------------------------------------------------------------
(* C3 *)

\* C3 as stated: a signup or unregister that names an activity outside the
\* registry returns 404 whatever credentials it carries.
C3_Original ==
    (IsRosterRequest(request) /\ request.activity_name \notin DOMAIN activities)
        => response.status_code = 404

\* C3 as amended: a signup or unregister that names an activity outside the
\* registry returns 404 when it carries valid teacher credentials; with any
\* other Authorization header the credential check fails first and the
\* response is that failure (401, or the 500 of an unhandled error), never
\* 404.  The registry is unchanged in every case.
C3_UnknownActivity ==
    [][(IsRosterRequest(request') /\ request'.activity_name \notin DOMAIN activities)
       => (/\ activities' = activities
           /\ (request'.authorization \in ValidHeaders => response'.status_code = 404)
           /\ (request'.authorization \notin ValidHeaders
                   => response'.status_code \in {401, 500}))]_vars

C3_Witness ==
    /\ request.op = "unregister"
    /\ request.activity_name = "Nonexistent Club"
    /\ request.authorization = AmyHeader
    /\ response.status_code = 404
    /\ response.content.detail = "Activity not found"

----------------------------------------------------------------------------
(* C4 *)

\* C4: an unregister with valid teacher credentials of an email that is a
\* participant returns 200 and takes exactly one entry equal to that email
\* out of the list, the others keeping their order; the same unregister
\* repeated at once returns 400 and changes nothing.
C4_UnregisterOnceThenRejected ==
    [][/\ (/\ request'.op = "unregister"
           /\ request'.authorization \in ValidHeaders
           /\ request'.activity_name \in DOMAIN activities
           /\ Contains(Participants(activities, request'.activity_name), request'.email))
          => LET a == request'.activity_name
                 old == Participants(activities, a)
             IN  /\ response'.status_code = 200
                 /\ \E i \in 1..Len(old) :
                        /\ old[i] = request'.email
                        /\ activities' = [activities EXCEPT ![a].participants = Without(old, i)]
       /\ (/\ request.op = "unregister"
           /\ response.status_code = 200
           /\ request'.op = "unregister"
           /\ request'.activity_name = request.activity_name
           /\ request'.email = request.email
           /\ request'.authorization \in ValidHeaders)
          => (/\ response'.status_code = 400
              /\ activities' = activities
              /\ logged_in_teachers' = logged_in_teachers)]_vars

C4_Witness ==
    /\ request.op = "unregister"
    /\ request.authorization \in ValidHeaders
    /\ request.activity_name = "Chess Club"
    /\ request.email = "michael@mergington.edu"
    /\ response.status_code = 400
    /\ Participants(activities, "Chess Club") = <<"daniel@mergington.edu">>

----------------------------------------------------------------------------
(* C5 *)

\* C5 as stated: a signup or unregister whose Authorization header is
\* missing, is not Basic, cannot be decoded, or carries a pair that matches
\* no teacher returns 401.
C5_Original ==
    (IsRosterRequest(request) /\ request.authorization \notin ValidHeaders)
        => response.status_code = 401

----------------------------------------------------------------------------
(* C6 *)

----------------------------------------------------------------------------
(* C7 *)

\* what a signup or unregister request does in the global state g
RosterOutcome(g, req) ==
    IF req.op = "signup"
    THEN signup_for_activity(g, req.activity_name, req.email, req.authorization)
    ELSE unregister_from_activity(g, req.activity_name, req.email, req.authorization)

RosterRequests ==
    {Request(op, h, a, e) :
        op \in {"signup", "unregister"}, h \in Headers, a \in ActivityNames, e \in Emails}

\* GET /activities changes nothing, so the states that follow it carry every
\* reachable registry with every reachable content of logged_in_teachers
JustListed == request.op = "get_activities"

\* C7: on the registry of any reachable state, every signup or unregister
\* request ends with the same status code and the same resulting registry
\* whatever logged_in_teachers holds (nobody, only some, everybody), and it
\* leaves logged_in_teachers as it found it.
C7_SessionsDoNotGate ==
    JustListed =>
        \A req \in RosterRequests, sessions \in SUBSET Usernames :
            LET o == RosterOutcome([activities |-> activities,
                                    logged_in_teachers |-> sessions], req)
                nobody == RosterOutcome([activities |-> activities,
                                         logged_in_teachers |-> {}], req)
            IN  /\ o.response.status_code = nobody.response.status_code
                /\ o.g.activities = nobody.g.activities
                /\ o.g.logged_in_teachers = sessions

\* after an unregister, with amy logged out and bob logged in, amy can still
\* unregister a student
C7_Witness ==
    /\ JustListed
    /\ amy \notin logged_in_teachers
    /\ bob \in logged_in_teachers
    /\ Participants(activities, "Chess Club") = <<"daniel@mergington.edu">>
    /\ unregister_from_activity(Globals, "Chess Club", "daniel@mergington.edu",
                                AmyHeader).response.status_code = 200

----------------------------------------------------------------------------
(* C8 *)

StatusOf(call) == IF call.raised THEN call.exc.status_code ELSE 200

\* C8 as stated: for every username and password, authenticate_teacher and
\* require_teacher (on the Basic header that encodes the pair) both accept
\* and return the username, or both reject with 401; authenticate_teacher
\* adds the username to logged_in_teachers exactly when it accepts.
C8_Original ==
    \A username \in Usernames, password \in Passwords :
        LET a == authenticate_teacher(Globals,
                     [username |-> username, password |-> password])
            b == require_teacher(Globals, BasicHeader(Basic, username, password))
        IN  /\ a.out.raised <=> b.raised
            /\ ~a.out.raised => (a.out.value = username /\ b.value = username)
            /\ a.out.raised => (StatusOf(a.out) = 401 /\ StatusOf(b) = 401)
            /\ a.g.activities = activities
            /\ a.g.logged_in_teachers =
                   IF a.out.raised THEN logged_in_teachers
                   ELSE logged_in_teachers \cup {username}

----------------------------------------------------------------------------
(* C10 *)

RegistryShape ==
    /\ DOMAIN activities = DOMAIN InitialActivities
    /\ \A n \in DOMAIN activities :
          /\ activities[n].description = InitialActivities[n].description
          /\ activities[n].schedule = InitialActivities[n].schedule
          /\ activities[n].max_participants = InitialActivities[n].max_participants
          /\ NoDuplicates(activities[n].participants)

\* C10: with requests handled one at a time, the registry always has the
\* nine initial activity names, each with its initial description, schedule
\* and max_participants and with no email twice among its participants; and a
\* signup or unregister leaves the participants of every activity other than
\* the one it names unchanged.
C10_RegistryInvariants ==
    /\ []RegistryShape
    /\ [][IsRosterRequest(request')
          => \A n \in DOMAIN activities \ {request'.activity_name} :
                 Participants(activities', n) = Participants(activities, n)]_vars

C10_Witness ==
    /\ request.op = "signup"
    /\ response.status_code = 200
    /\ Participants(activities, "Chess Club") =
           <<"daniel@mergington.edu", "isabella@mergington.edu", "michael@mergington.edu">>
    /\ \A n \in DOMAIN activities \ {"Chess Club"} : activities[n] = InitialActivities[n]

----------------------------------------------------------------------------
(* C9 *)

Count(list, x) == Cardinality({i \in 1..Len(list) : list[i] = x})

\* C9: with the handlers running in parallel threads, the step that appends
\* is taken whatever has happened to the list since the thread made its
\* duplicate check: it appends the email, also when the email is in the list
\* by then, and answers 200; and the step that removes, when the email has
\* left the list since the membership check, fails with an unhandled
\* ValueError (a 500, none of 200, 400, 404) and changes nothing.
C9_ChecksDoNotGuardTheUpdate ==
    [][\A t \in Threads :
          /\ (pc[t] = "append" /\ pc'[t] = "idle")
                => LET a == local[t].activity_name IN
                   /\ Participants(activities', a)
                          = Append(Participants(activities, a), local[t].email)
                   /\ result'[t].status_code = 200
          /\ (/\ pc[t] = "remove" /\ pc'[t] = "idle"
              /\ ~Contains(Participants(activities, local[t].activity_name), local[t].email))
                => (/\ result'[t].status_code = 500
                    /\ result'[t].content.detail = "ValueError"
                    /\ activities' = activities)]_vars

\* two signups of one email have both appended it, and of two unregisters of
\* one email the second has failed in list.remove
C9_Witness ==
    /\ Count(Participants(activities, "Chess Club"), "isabella@mergington.edu") = 2
    /\ \A t \in Threads : pc[t] = "idle"
    /\ \E t, u \in Threads :
          /\ t # u
          /\ local[t].op = "unregister" /\ local[u].op = "unregister"
          /\ local[t].email = local[u].email
          /\ result[t].status_code = 200
          /\ result[u].status_code = 500

====
